---- MODULE Spec2Model ----
(***************************************************************************)
(* A model of the code cells of pythess/meta_alltheway/meta_alltheway.ipynb *)
(* ("It's metaclasses all the way down"): convert and the two camelCase to *)
(* snake_case metaclasses, the abstract base class cell, the MyMeta class    *)
(* creation and instance creation hooks, and the Singleton metaclass.        *)
(*                                                                           *)
(* Identifiers are sequences of one-character strings, so that the regular   *)
(* expressions of convert and str.startswith act on characters.  A dict is a *)
(* sequence of [k, v] records in insertion order.                            *)
(***************************************************************************)
EXTENDS Integers, Sequences, FiniteSets

\* ------------------------------------------------------------------ bounds

\* Longest identifier drawn as input of convert.
MaxLen == 5

\* ------------------------------------------------------------- characters

LowerSeq ==
    << "a", "b", "c", "d", "e", "f", "g", "h", "i", "j", "k", "l", "m",
       "n", "o", "p", "q", "r", "s", "t", "u", "v", "w", "x", "y", "z" >>

UpperSeq ==
    << "A", "B", "C", "D", "E", "F", "G", "H", "I", "J", "K", "L", "M",
       "N", "O", "P", "Q", "R", "S", "T", "U", "V", "W", "X", "Y", "Z" >>

DigitSeq == << "0", "1", "2", "3", "4", "5", "6", "7", "8", "9" >>

\* [a-z]
IsLower(c) == \E i \in DOMAIN LowerSeq : LowerSeq[i] = c

\* [A-Z]
IsUpper(c) == \E i \in DOMAIN UpperSeq : UpperSeq[i] = c

\* [0-9]
IsDigit(c) == \E i \in DOMAIN DigitSeq : DigitSeq[i] = c

\* '.' of a pattern compiled without DOTALL: any character but a newline
IsDot(c) == c # "\n"

\* str.lower() on one character
LowerChar(c) ==
    IF IsUpper(c)
    THEN LowerSeq[CHOOSE i \in DOMAIN UpperSeq : UpperSeq[i] = c]
    ELSE c

\* str.lower()
lower(s) == [i \in DOMAIN s |-> LowerChar(s[i])]

\* str.startswith('__')
StartsWithDunder(s) == Len(s) >= 2 /\ s[1] = "_" /\ s[2] = "_"

\* ---------------------------------------------------------------- convert

\* Last index of the greedy run [a-z]+ that begins at index i of s.
RECURSIVE LowerRunEnd(_, _)
LowerRunEnd(s, i) ==
    IF i < Len(s) /\ IsLower(s[i + 1]) THEN LowerRunEnd(s, i + 1) ELSE i

\* Whether '(.)([A-Z][a-z]+)' matches at index i of s.
Match1(s, i) ==
    /\ i + 2 <= Len(s)
    /\ IsDot(s[i])
    /\ IsUpper(s[i + 1])
    /\ IsLower(s[i + 2])

\* re.sub('(.)([A-Z][a-z]+)', r'\1_\2', s), scanning from index i:
\* leftmost, non-overlapping matches, the scan resuming after each match.
RECURSIVE Sub1From(_, _)
Sub1From(s, i) ==
    IF i > Len(s) THEN << >>
    ELSE IF Match1(s, i)
         THEN LET e == LowerRunEnd(s, i + 2)
              IN  << s[i], "_" >> \o SubSeq(s, i + 1, e) \o Sub1From(s, e + 1)
         ELSE << s[i] >> \o Sub1From(s, i + 1)

\* Whether '([a-z0-9])([A-Z])' matches at index i of s.
Match2(s, i) ==
    /\ i + 1 <= Len(s)
    /\ (IsLower(s[i]) \/ IsDigit(s[i]))
    /\ IsUpper(s[i + 1])

\* re.sub('([a-z0-9])([A-Z])', r'\1_\2', s), scanning from index i.
RECURSIVE Sub2From(_, _)
Sub2From(s, i) ==
    IF i > Len(s) THEN << >>
    ELSE IF Match2(s, i)
         THEN << s[i], "_", s[i + 1] >> \o Sub2From(s, i + 2)
         ELSE << s[i] >> \o Sub2From(s, i + 1)

\* convert with its second substitution left out.
convertFirstSubOnly(name) == lower(Sub1From(name, 1))

\* def convert(name)
convert(name) ==
    LET s1 == Sub1From(name, 1)
    IN  lower(Sub2From(s1, 1))

\* ------------------------------------------------------- inputs of convert

\* Characters the bounded identifiers are drawn from: two lowercase and two
\* uppercase letters, a digit and the underscore.
ConvAlphabet == { "a", "b", "A", "B", "1", "_" }

RECURSIVE StringsOver(_, _)
StringsOver(alphabet, n) ==
    IF n = 0 THEN { << >> }
    ELSE LET shorter == StringsOver(alphabet, n - 1)
         IN  shorter \cup
             { Append(s, c) : s \in { t \in shorter : Len(t) = n - 1 },
                              c \in alphabet }

addToVector == << "a", "d", "d", "T", "o", "V", "e", "c", "t", "o", "r" >>

subtractFromVector ==
    << "s", "u", "b", "t", "r", "a", "c", "t",
       "F", "r", "o", "m", "V", "e", "c", "t", "o", "r" >>

calculateDotProduct ==
    << "c", "a", "l", "c", "u", "l", "a", "t", "e",
       "D", "o", "t", "P", "r", "o", "d", "u", "c", "t" >>

calculateCrossProduct ==
    << "c", "a", "l", "c", "u", "l", "a", "t", "e",
       "C", "r", "o", "s", "s", "P", "r", "o", "d", "u", "c", "t" >>

calculateTripleProduct ==
    << "c", "a", "l", "c", "u", "l", "a", "t", "e",
       "T", "r", "i", "p", "l", "e", "P", "r", "o", "d", "u", "c", "t" >>

getFirstName ==
    << "g", "e", "t", "F", "i", "r", "s", "t", "N", "a", "m", "e" >>

\* The method names the notebook itself renames.
NotebookNames ==
    { addToVector, subtractFromVector, calculateDotProduct,
      calculateCrossProduct, calculateTripleProduct, getFirstName }

ConvInputs == (StringsOver(ConvAlphabet, MaxLen) \ { << >> }) \cup NotebookNames

\* ------------------------------------------------------------------- dicts

\* The keys of a dict.
DictKeys(d) == { d[i].k : i \in DOMAIN d }

\* d[key], for a key of d.
DictGet(d, key) == d[CHOOSE i \in DOMAIN d : d[i].k = key].v

\* d[key] = val: an existing key keeps its place and takes the new value, a
\* new key is appended.
DictSet(d, key, val) ==
    IF key \in DictKeys(d)
    THEN [i \in DOMAIN d |-> IF d[i].k = key THEN [k |-> key, v |-> val] ELSE d[i]]
    ELSE Append(d, [k |-> key, v |-> val])

\* The (key, value) pairs of a dict, as a set.
DictItems(d) == { << d[i].k, d[i].v >> : i \in DOMAIN d }

\* ------------------------------------------------------------ metaclasses

\* type(name, bases, attrs) and type.__new__(mcs, name, bases, attrs): the
\* class object, as its name, its bases and the namespace handed over.  The
\* entries type adds on its own to every class (__dict__, __weakref__,
\* __doc__) are left out.
TypeNew(name, bases, ns) == [name |-> name, bases |-> bases, ns |-> ns]

\* The loop of camel_to_snake_case over attrs.items(), from item i on.
RECURSIVE FnSnakeAttrs(_, _, _)
FnSnakeAttrs(attrs, i, snake_attrs) ==
    IF i > Len(attrs) THEN snake_attrs
    ELSE LET attr_name == attrs[i].k
             attr_val  == attrs[i].v
         IN  IF ~StartsWithDunder(attr_name)
             THEN FnSnakeAttrs(attrs, i + 1,
                               DictSet(snake_attrs, convert(attr_name), attr_val))
             ELSE FnSnakeAttrs(attrs, i + 1,
                               DictSet(snake_attrs, attr_name, attr_val))

\* The loop of CamelToSnake.__new__ over attrs.items(), from item i on: the
\* test is on name, the class name, not on attr_name.
RECURSIVE McSnakeAttrs(_, _, _, _)
McSnakeAttrs(name, attrs, i, snake_attrs) ==
    IF i > Len(attrs) THEN snake_attrs
    ELSE LET attr_name == attrs[i].k
             attr_val  == attrs[i].v
         IN  IF ~StartsWithDunder(name)
             THEN McSnakeAttrs(name, attrs, i + 1,
                               DictSet(snake_attrs, convert(attr_name), attr_val))
             ELSE McSnakeAttrs(name, attrs, i + 1,
                               DictSet(snake_attrs, attr_name, attr_val))

\* camel_to_snake_case testing the class name, as CamelToSnake.__new__ does.
camel_to_snake_case_name_test(name, bases, attrs) ==
    TypeNew(name, bases, McSnakeAttrs(name, attrs, 1, << >>))

\* def camel_to_snake_case(name, bases, attrs): the class it returns.
camel_to_snake_case(name, bases, attrs) ==
    TypeNew(name, bases, FnSnakeAttrs(attrs, 1, << >>))

\* CamelToSnake.__new__(mcs, name, bases, attrs): the class it returns.
CamelToSnake__new__(name, bases, attrs) ==
    TypeNew(name, bases, McSnakeAttrs(name, attrs, 1, << >>))

\* --------------------------------------------- inputs of the metaclasses

\* Longest attribute name drawn exhaustively.
MaxAttrLen == 1

\* Most attributes of a class body.
MaxAttrs == 2

AttrAlphabet == { "a", "B", "_" }

MyVector == << "M", "y", "V", "e", "c", "t", "o", "r" >>

\* A class name that itself starts with two underscores.
DunderClass == << "_", "_", "V" >>

ClassNames == { MyVector, DunderClass }

\* The bases of the class statement: none, as in the notebook, or one.
BaseTuples == { << >>, << "object" >> }

\* Attribute names beyond the exhaustive short ones: a method of the notebook,
\* an entry every class body holds, a dunder name with a capital in it, and
\* names that meet after conversion (a_b with aB, __ab with _Ab).
LongAttrNames ==
    { addToVector,
      << "a", "B" >>,
      << "_", "_", "m", "o", "d", "u", "l", "e", "_", "_" >>,
      << "_", "_", "a", "B", "_", "_" >>,
      << "_", "_", "a", "b" >>,
      << "_", "A", "b" >>,
      << "a", "_", "b" >> }

AttrNames ==
    (StringsOver(AttrAlphabet, MaxAttrLen) \ { << >> }) \cup LongAttrNames

\* The sequences of at most n distinct attribute names.
RECURSIVE NameLists(_)
NameLists(n) ==
    IF n = 0 THEN { << >> }
    ELSE LET shorter == NameLists(n - 1)
         IN  shorter \cup
             { Append(l, a) : l \in { x \in shorter : Len(x) = n - 1 },
                              a \in AttrNames }

Distinct(l) == \A i, j \in DOMAIN l : l[i] = l[j] => i = j

\* A class body's namespace: its names in order of definition, the value of
\* the i-th being the object i.
BodyOf(l) == [i \in DOMAIN l |-> [k |-> l[i], v |-> i]]

Bodies == { BodyOf(l) : l \in { x \in NameLists(MaxAttrs) : Distinct(x) } }

\* ------------------------------------------------------ MyMeta and MyClass2

\* Largest value drawn for the arguments a and b of MyClass2(s, a, b).
MaxArg == 1

\* Most calls of MyClass2 in one run.
MaxCalls == 2

\* The keyword arguments of the inheritance list: none, or extra=1 as in
\* class MyClass2(metaclass=MyMeta, extra=1).
ClassKwargs == { << >>, << [k |-> "extra", v |-> 1] >> }

\* The namespace the body of MyClass2 leaves behind: the two entries every
\* class body sets, its two methods, and the cell super() needs.
MyClass2Body ==
    << [k |-> "__module__", v |-> "__main__"],
       [k |-> "__qualname__", v |-> "MyClass2"],
       [k |-> "__new__", v |-> "MyClass2.__new__"],
       [k |-> "__init__", v |-> "MyClass2.__init__"],
       [k |-> "__classcell__", v |-> "cell"] >>

\* list(attrs.keys())
KeyList(d) == [i \in DOMAIN d |-> d[i].k]

\* What MyMeta.__prepare__ prints.
MyMeta__prepare__(name, bases, kwargs) ==
    [ev |-> "MyMeta.__prepare__", name |-> name, bases |-> bases, kwargs |-> kwargs]

\* What MyMeta.__new__ prints.
MyMeta__new__(name, bases, attrs, kwargs) ==
    [ev |-> "MyMeta.__new__", name |-> name, bases |-> bases,
     attrs |-> KeyList(attrs), kwargs |-> kwargs]

\* MyMeta.__init__ printing no keyword arguments.
MyMeta__init__NoKwargs(cls, name, bases, attrs, kwargs) ==
    [ev |-> "MyMeta.__init__", cls |-> cls, name |-> name, bases |-> bases,
     attrs |-> KeyList(attrs), kwargs |-> << >>]

\* What MyMeta.__init__ prints.
MyMeta__init__(cls, name, bases, attrs, kwargs) ==
    [ev |-> "MyMeta.__init__", cls |-> cls, name |-> name, bases |-> bases,
     attrs |-> KeyList(attrs), kwargs |-> kwargs]

\* What MyMeta.__call__ prints on entry.
MyMeta__call__(cls, call) ==
    [ev |-> "MyMeta.__call__", cls |-> cls, call |-> call]

\* What MyMeta.__call__ prints before it returns self.
MyMeta__call__return(self) ==
    [ev |-> "MyMeta.__call__ return", self |-> self]

\* The calls MyClass2(...): s given or not, a and b given or left to their
\* defaults.  An argument is << >> when absent and << value >> when given.
Optional(S) == { << >> } \cup { << x >> : x \in S }

Calls ==
    [s : Optional({ "hello" }), a : Optional(0 .. MaxArg), b : Optional(0 .. MaxArg)]

\* Binding a call to the signature (s, a=0, b=0) of MyClass2.__new__ and
\* MyClass2.__init__: a TypeError when s is missing.
BindsToSignature(call) == call.s # << >>

ParamA(call) == IF call.a = << >> THEN 0 ELSE call.a[1]

ParamB(call) == IF call.b = << >> THEN 0 ELSE call.b[1]

\* What MyClass2.__new__ prints, with the object super().__new__(cls) returns.
MyClass2__new__(cls, call, obj) ==
    [ev |-> "MyClass2.__new__", cls |-> cls, s |-> call.s[1],
     a |-> ParamA(call), b |-> ParamB(call), obj |-> obj]

\* What MyClass2.__init__ prints.
MyClass2__init__(self, call) ==
    [ev |-> "MyClass2.__init__", self |-> self, s |-> call.s[1],
     a |-> ParamA(call), b |-> ParamB(call)]

\* MyClass2.__init__ assigning its two arguments the wrong way round.
SetFieldsSwapped(a, b) == << [k |-> "a", v |-> b], [k |-> "b", v |-> a] >>

\* self.a, self.b = a, b
SetFields(a, b) == << [k |-> "a", v |-> a], [k |-> "b", v |-> b] >>

\* ------------------------------------------------- abstract base classes

\* Most subclasses defined after cell 1 has run.
MaxSubclasses == 1

\* Most instantiations attempted after cell 1 has run.
MaxTries == 2

\* The names that may be abstract methods, in sorted order.
MethodOrder == << "change_gear", "start_engine" >>

MethodNames == { MethodOrder[i] : i \in DOMAIN MethodOrder }

\* class Vehicle(metaclass=ABCMeta): both methods under @abstractmethod.
VehicleBody ==
    << [k |-> "change_gear", v |-> "abstract"],
       [k |-> "start_engine", v |-> "abstract"] >>

\* A Car that overrides both abstract methods.
CarBodyOverriding ==
    << [k |-> "__init__", v |-> "concrete"],
       [k |-> "change_gear", v |-> "concrete"],
       [k |-> "start_engine", v |-> "concrete"] >>

\* class Car(Vehicle): it defines __init__ and nothing else.
CarBody == << [k |-> "__init__", v |-> "concrete"] >>

\* The names of the subclasses defined later, in the order they are used.
SubclassNames == << "Sub1", "Sub2", "Sub3" >>

\* The bodies of the subclasses defined later: each method of MethodNames is
\* left out, defined plainly, or defined under @abstractmethod again.
SubclassBodies ==
    { SelectSeq(<< [k |-> "change_gear", v |-> c], [k |-> "start_engine", v |-> s] >>,
                LAMBDA e : e.v # "absent") :
        c \in { "absent", "concrete", "abstract" },
        s \in { "absent", "concrete", "abstract" } }

\* ABCMeta.__new__(mcls, name, bases, namespace), for one base or none ("")
\* among the classes defined: the class, with __abstractmethods__ the names
\* the namespace defines under @abstractmethod and the names of the base's
\* __abstractmethods__ that still resolve to an abstract method, which is
\* those the namespace does not define.
ABCMeta__new__(name, base, namespace, defined) ==
    LET own == { namespace[i].k :
                    i \in { j \in DOMAIN namespace : namespace[j].v = "abstract" } }
        inherited ==
            IF base = "" THEN { }
            ELSE { m \in DictGet(defined, base).abstractmethods :
                      IF m \in DictKeys(namespace)
                      THEN DictGet(namespace, m) = "abstract"
                      ELSE TRUE }
    IN  [name |-> name, base |-> base, ns |-> namespace,
         abstractmethods |-> own \cup inherited]

\* sorted(cls.__abstractmethods__)
SortedMethods(S) == SelectSeq(MethodOrder, LAMBDA m : m \in S)

\* The TypeError of object.__new__ for a class with abstract methods left:
\* "Can't instantiate abstract class <name> with abstract methods <a>, <b>".
AbstractTypeError(cls) ==
    [ev |-> "TypeError", text |-> "Can't instantiate abstract class",
     cls |-> cls.name, methods |-> SortedMethods(cls.abstractmethods)]

\* Whether __init__ resolves, for the class named c, to Car.__init__.
RECURSIVE InheritsCarInit(_, _)
InheritsCarInit(defined, c) ==
    IF c = "" THEN FALSE
    ELSE LET cls == DictGet(defined, c)
         IN  "__init__" \in DictKeys(cls.ns) \/ InheritsCarInit(defined, cls.base)

\* Car.__init__(self, make, model, color)
CarFields ==
    << [k |-> "make", v |-> "Toyota"],
       [k |-> "model", v |-> "Avensis"],
       [k |-> "color", v |-> "silver"] >>

\* --------------------------------------------------------------- Singleton

\* Most calls of Singleton.__call__ under way at once, one inside the other.
MaxDepth == 2

\* Most calls of Singleton.__call__ in one run.
MaxSingletonCalls == 3

\* The classes whose metaclass is Singleton or derives from it: the
\* notebook's MyVector (metaclass=SnakeSingleton, no __new__ or __init__ of
\* its own), and a class with metaclass=Singleton whose __init__ is code of
\* its own, taking any arguments.
SingletonClasses == { "MyVector", "UserClass" }

\* Whether the class defines an __init__: only then does user code run
\* inside super().__call__, and only then are arguments accepted.
HasOwnInit(cls) == cls = "UserClass"

\* The argument tuples of a call: () or one positional argument.
ArgTuples == Optional(0 .. MaxArg)

\* cls in cls._instances
InInstances(instances, cls) == cls \in DictKeys(instances)

\* ------------------------------------------------------------------- state

VARIABLES
    arg,        \* convert: the identifier passed in
    ret,        \* convert: << >> before the call, << result >> after it
    clsname,    \* the name of the class statement
    clsbases,   \* its bases
    body,       \* the namespace its body produced
    fnClass,    \* << the class camel_to_snake_case built >>, or << >>
    mcClass,    \* << the class CamelToSnake built >>, or << >>
    stdout,     \* the lines printed
    pc,         \* where the interpreter stands in the running cell
    kw,         \* the keyword arguments of MyClass2's inheritance list
    ns,         \* the namespace __prepare__ returned, filled by the class body
    trace,      \* the hooks and statements run so far, in order
    heap,       \* the instances created: heap[i] is object i
    frame,      \* the running call: its arguments and the object in the making
    a_var,      \* the notebook's variable a: << >> or << object >>
    classes,    \* the classes created with ABCMeta, by name, as a dict
    car_var,    \* the notebook's variable car: << >> or << object >>
    tries,      \* instantiations attempted after cell 1 has run
    Singleton_instances,  \* Singleton._instances: class |-> its instance
    stack,      \* the calls of Singleton.__call__ under way, innermost last
    returned    \* what the calls of Singleton.__call__ have returned, in order

convVars == << arg, ret >>
metaVars == << clsname, clsbases, body, fnClass, mcClass >>
runVars == << pc, trace, heap >>
lifeVars == << kw, ns, frame, a_var >>
abcVars == << classes, car_var, tries >>
singVars == << Singleton_instances, stack, returned >>
vars ==
    << arg, ret, clsname, clsbases, body, fnClass, mcClass, stdout,
       pc, kw, ns, trace, heap, frame, a_var,
       classes, car_var, tries, Singleton_instances, stack, returned >>

ConvIdle == arg = << >> /\ ret = << >>
MetaIdle ==
    /\ clsname = << >> /\ clsbases = << >> /\ body = << >>
    /\ fnClass = << >> /\ mcClass = << >>
RunIdle == pc = "off" /\ trace = << >> /\ heap = << >>
LifeIdle == kw = << >> /\ ns = << >> /\ frame = << >> /\ a_var = << >>
AbcIdle == classes = << >> /\ car_var = << >> /\ tries = 0
SingIdle == Singleton_instances = << >> /\ stack = << >> /\ returned = << >>

\* ------------------------------------------------- specification: convert

ConvInit ==
    /\ arg \in ConvInputs
    /\ ret = << >>
    /\ MetaIdle
    /\ RunIdle
    /\ LifeIdle
    /\ AbcIdle
    /\ SingIdle
    /\ stdout = << >>

\* A call convert(arg).
Convert ==
    /\ ret = << >>
    /\ ret' = << convert(arg) >>
    /\ UNCHANGED << arg, metaVars, runVars, lifeVars, abcVars, singVars, stdout >>

ConvNext == Convert

SpecConvert == ConvInit /\ [][ConvNext]_vars

\* ------------------------------------- specification: the two metaclasses

MetaInit ==
    /\ clsname \in ClassNames
    /\ clsbases \in BaseTuples
    /\ body \in Bodies
    /\ fnClass = << >>
    /\ mcClass = << >>
    /\ ConvIdle
    /\ RunIdle
    /\ LifeIdle
    /\ AbcIdle
    /\ SingIdle
    /\ stdout = << >>

\* class <clsname>(metaclass=camel_to_snake_case): the metaclass is called
\* with the name, the bases and the body's namespace.
DefineWithFunction ==
    /\ fnClass = << >>
    /\ stdout' = Append(stdout, << "Calling the metaclass camel_to_snake_case to construct class: ", clsname >>)
    /\ fnClass' = << camel_to_snake_case(clsname, clsbases, body) >>
    /\ UNCHANGED << clsname, clsbases, body, mcClass, convVars, runVars, lifeVars, abcVars, singVars >>

\* class <clsname>(metaclass=CamelToSnake)
DefineWithClass ==
    /\ mcClass = << >>
    /\ mcClass' = << CamelToSnake__new__(clsname, clsbases, body) >>
    /\ UNCHANGED << clsname, clsbases, body, fnClass, convVars, runVars, lifeVars, abcVars, singVars, stdout >>

MetaNext == DefineWithFunction \/ DefineWithClass

SpecMeta == MetaInit /\ [][MetaNext]_vars

\* ------------------------------- specification: class and instance creation

\* Cell 10 about to run, with the keyword arguments of its class statement.
LifeInit ==
    /\ pc = "cell10"
    /\ kw \in ClassKwargs
    /\ ns = << >>
    /\ trace = << >>
    /\ heap = << >>
    /\ frame = << >>
    /\ a_var = << >>
    /\ ConvIdle
    /\ MetaIdle
    /\ AbcIdle
    /\ SingIdle
    /\ stdout = << >>

\* An event that is printed goes to the trace and to stdout.
Printed(line) ==
    /\ trace' = Append(trace, line)
    /\ stdout' = Append(stdout, line)

\* class MyClass2(metaclass=MyMeta, extra=1): the statement first calls
\* MyMeta.__prepare__(name, bases, **kwargs), which returns {}.
Prepare ==
    /\ pc = "cell10"
    /\ Printed(MyMeta__prepare__("MyClass2", << >>, kw))
    /\ ns' = << >>
    /\ pc' = "body"
    /\ UNCHANGED << kw, heap, frame, a_var, convVars, metaVars, abcVars, singVars >>

\* The class body runs in the namespace __prepare__ returned.
ClassBody ==
    /\ pc = "body"
    /\ ns' = MyClass2Body
    /\ trace' = Append(trace, [ev |-> "class body", name |-> "MyClass2"])
    /\ pc' = "meta_new"
    /\ UNCHANGED << kw, heap, frame, a_var, stdout, convVars, metaVars, abcVars, singVars >>

\* The statement calls the metaclass, MyMeta(name, bases, ns, **kwargs):
\* type.__call__ runs MyMeta.__new__ ...
MetaNew ==
    /\ pc = "meta_new"
    /\ Printed(MyMeta__new__("MyClass2", << >>, ns, kw))
    /\ pc' = "meta_init"
    /\ UNCHANGED << kw, ns, heap, frame, a_var, convVars, metaVars, abcVars, singVars >>

\* ... and then MyMeta.__init__ on the class MyMeta.__new__ returned.
MetaInitHook ==
    /\ pc = "meta_init"
    /\ Printed(MyMeta__init__("MyClass2", "MyClass2", << >>, ns, kw))
    /\ pc' = "after_class"
    /\ UNCHANGED << kw, ns, heap, frame, a_var, convVars, metaVars, abcVars, singVars >>

\* print("Class MyClass created"), the statement after the class definition.
PrintClassCreated ==
    /\ pc = "after_class"
    /\ Printed([ev |-> "print", text |-> "Class MyClass created"])
    /\ pc' = "idle"
    /\ UNCHANGED << kw, ns, heap, frame, a_var, convVars, metaVars, abcVars, singVars >>

Entered == { i \in DOMAIN trace : trace[i].ev = "MyMeta.__call__" }

\* a = MyClass2(...): calling the class runs MyMeta.__call__, which prints and
\* then calls super().__call__(*args, **kwargs).
CallEnter ==
    /\ pc = "idle"
    /\ Cardinality(Entered) < MaxCalls
    /\ \E call \in Calls :
          /\ Printed(MyMeta__call__("MyClass2", call))
          /\ frame' = << [call |-> call, self |-> 0] >>
    /\ pc' = "obj_new"
    /\ UNCHANGED << kw, ns, heap, a_var, convVars, metaVars, abcVars, singVars >>

\* type.__call__ calls MyClass2.__new__(cls, *args, **kwargs): a TypeError
\* that ends the cell when the arguments do not fit (s, a=0, b=0), else the
\* print and a new object from super().__new__(cls).
ObjNew ==
    /\ pc = "obj_new"
    /\ LET call == frame[1].call
           obj  == Len(heap) + 1
       IN  IF BindsToSignature(call)
           THEN /\ Printed(MyClass2__new__("MyClass2", call, obj))
                /\ heap' = Append(heap, [cls |-> "MyClass2", fields |-> << >>])
                /\ frame' = << [call |-> call, self |-> obj] >>
                /\ pc' = "obj_init"
           ELSE /\ trace' = Append(trace, [ev |-> "TypeError"])
                /\ frame' = << >>
                /\ pc' = "idle"
                /\ UNCHANGED << heap, stdout >>
    /\ UNCHANGED << kw, ns, a_var, convVars, metaVars, abcVars, singVars >>

\* type.__call__ then calls MyClass2.__init__(self, *args, **kwargs) on the
\* object __new__ returned.
ObjInit ==
    /\ pc = "obj_init"
    /\ LET call == frame[1].call
           self == frame[1].self
       IN  /\ Printed(MyClass2__init__(self, call))
           /\ heap' = [heap EXCEPT ![self].fields = SetFields(ParamA(call), ParamB(call))]
    /\ pc' = "call_return"
    /\ UNCHANGED << kw, ns, frame, a_var, convVars, metaVars, abcVars, singVars >>

\* MyMeta.__call__ prints and returns self, which the cell binds to a.
CallReturn ==
    /\ pc = "call_return"
    /\ Printed(MyMeta__call__return(frame[1].self))
    /\ a_var' = << frame[1].self >>
    /\ frame' = << >>
    /\ pc' = "print_instance"
    /\ UNCHANGED << kw, ns, heap, convVars, metaVars, abcVars, singVars >>

\* print("MyClass instance created: ", a)
PrintInstance ==
    /\ pc = "print_instance"
    /\ Printed([ev |-> "print", text |-> "MyClass instance created: ", obj |-> a_var[1]])
    /\ pc' = "idle"
    /\ UNCHANGED << kw, ns, heap, frame, a_var, convVars, metaVars, abcVars, singVars >>

LifeNext ==
    \/ Prepare
    \/ ClassBody
    \/ MetaNew
    \/ MetaInitHook
    \/ PrintClassCreated
    \/ CallEnter
    \/ ObjNew
    \/ ObjInit
    \/ CallReturn
    \/ PrintInstance

SpecLife == LifeInit /\ [][LifeNext]_vars

\* ------------------------------ specification: the abstract base class cell

AbcInit ==
    /\ pc = "cell1"
    /\ classes = << >>
    /\ car_var = << >>
    /\ tries = 0
    /\ trace = << >>
    /\ heap = << >>
    /\ stdout = << >>
    /\ ConvIdle
    /\ MetaIdle
    /\ LifeIdle
    /\ SingIdle

\* class <name>(<base>, metaclass=ABCMeta): definition succeeds whatever the
\* body leaves abstract.
DefineABC(name, base, namespace) ==
    /\ classes' = DictSet(classes, name, ABCMeta__new__(name, base, namespace, classes))
    /\ trace' = Append(trace, [ev |-> "class", name |-> name])

\* class Vehicle(metaclass=ABCMeta)
DefineVehicle ==
    /\ pc = "cell1"
    /\ DefineABC("Vehicle", "", VehicleBody)
    /\ pc' = "vehicle_defined"
    /\ UNCHANGED << heap, stdout, car_var, tries, convVars, metaVars, lifeVars, singVars >>

\* class Car(Vehicle)
DefineCar ==
    /\ pc = "vehicle_defined"
    /\ DefineABC("Car", "Vehicle", CarBody)
    /\ pc' = "car_defined"
    /\ UNCHANGED << heap, stdout, car_var, tries, convVars, metaVars, lifeVars, singVars >>

\* try: car = <c>(...)  except TypeError as e: print(e)
\* object.__new__ raises before __init__ when the class has abstract methods
\* left; else the object is created, __init__ runs and car is bound.
TryInstantiate(c) ==
    LET cls == DictGet(classes, c)
        obj == Len(heap) + 1
    IN  IF cls.abstractmethods # { }
        THEN /\ trace' = Append(trace, AbstractTypeError(cls))
             /\ stdout' = Append(stdout, AbstractTypeError(cls))
             /\ UNCHANGED << heap, car_var >>
        ELSE /\ heap' = Append(heap,
                    [cls |-> c,
                     fields |-> IF InheritsCarInit(classes, c) THEN CarFields ELSE << >>])
             /\ trace' = Append(trace, [ev |-> "instance", cls |-> c, obj |-> obj,
                                        init |-> InheritsCarInit(classes, c)])
             /\ car_var' = << obj >>
             /\ UNCHANGED stdout

\* The try statement of cell 1, on Car('Toyota', 'Avensis', 'silver').
TryCar ==
    /\ pc = "car_defined"
    /\ TryInstantiate("Car")
    /\ pc' = "cell1_done"
    /\ UNCHANGED << classes, tries, convVars, metaVars, lifeVars, singVars >>

\* A further subclass of a class already defined.
DefineSubclass ==
    /\ pc = "cell1_done"
    /\ Len(classes) - 2 < MaxSubclasses
    /\ Len(classes) - 1 <= Len(SubclassNames)
    /\ \E base \in DictKeys(classes), namespace \in SubclassBodies :
          DefineABC(SubclassNames[Len(classes) - 1], base, namespace)
    /\ UNCHANGED << pc, heap, stdout, car_var, tries, convVars, metaVars, lifeVars, singVars >>

\* The same try statement on any class defined so far.
TryClass ==
    /\ pc = "cell1_done"
    /\ tries < MaxTries
    /\ \E c \in DictKeys(classes) : TryInstantiate(c)
    /\ tries' = tries + 1
    /\ UNCHANGED << pc, classes, convVars, metaVars, lifeVars, singVars >>

AbcNext ==
    \/ DefineVehicle
    \/ DefineCar
    \/ TryCar
    \/ DefineSubclass
    \/ TryClass

SpecABC == AbcInit /\ [][AbcNext]_vars

\* ------------------------------------------------ specification: Singleton

SingInit ==
    /\ pc = "cell14"
    /\ Singleton_instances = << >>
    /\ stack = << >>
    /\ returned = << >>
    /\ heap = << >>
    /\ trace = << >>
    /\ stdout = << >>
    /\ ConvIdle
    /\ MetaIdle
    /\ LifeIdle
    /\ AbcIdle

CallsMade == { i \in DOMAIN trace : trace[i].ev = "Singleton.__call__" }

\* A call cls(*args) can be made by the notebook when no call is under way,
\* and by the __init__ of the innermost call under way.
CanCall ==
    /\ Cardinality(CallsMade) < MaxSingletonCalls
    /\ Len(stack) < MaxDepth
    /\ stack # << >> => HasOwnInit(stack[Len(stack)].cls)

\* Singleton.__call__ when cls is in cls._instances: the stored instance is
\* returned, and nothing else happens.
CallStored ==
    /\ CanCall
    /\ \E cls \in SingletonClasses, args \in ArgTuples :
          /\ InInstances(Singleton_instances, cls)
          /\ trace' = trace \o
                << [ev |-> "Singleton.__call__", cls |-> cls, args |-> args],
                   [ev |-> "return", cls |-> cls,
                    obj |-> DictGet(Singleton_instances, cls)] >>
          /\ returned' = Append(returned,
                [cls |-> cls, obj |-> DictGet(Singleton_instances, cls)])
    /\ UNCHANGED << pc, heap, stdout, Singleton_instances, stack,
                    convVars, metaVars, lifeVars, abcVars >>

\* Singleton.__call__ when cls is not in cls._instances and the class has no
\* __init__ of its own: super().__call__ raises TypeError when arguments are
\* given; else it returns a new object, which is stored and returned.
CallPlainClass ==
    /\ CanCall
    /\ \E cls \in SingletonClasses, args \in ArgTuples :
          /\ ~InInstances(Singleton_instances, cls)
          /\ ~HasOwnInit(cls)
          /\ LET obj == Len(heap) + 1
             IN  IF args # << >>
                 THEN /\ trace' = trace \o
                            << [ev |-> "Singleton.__call__", cls |-> cls, args |-> args],
                               [ev |-> "raise", cls |-> cls] >>
                      /\ UNCHANGED << heap, Singleton_instances, returned >>
                 ELSE /\ heap' = Append(heap, [cls |-> cls, fields |-> << >>])
                      /\ Singleton_instances' = DictSet(Singleton_instances, cls, obj)
                      /\ trace' = trace \o
                            << [ev |-> "Singleton.__call__", cls |-> cls, args |-> args],
                               [ev |-> "__new__", cls |-> cls, obj |-> obj],
                               [ev |-> "return", cls |-> cls, obj |-> obj] >>
                      /\ returned' = Append(returned, [cls |-> cls, obj |-> obj])
    /\ UNCHANGED << pc, stdout, stack, convVars, metaVars, lifeVars, abcVars >>

\* Singleton.__call__ when cls is not in cls._instances and the class has an
\* __init__ of its own: super().__call__ creates the object and starts
\* __init__ on it, which is user code.
CallEntersInit ==
    /\ CanCall
    /\ \E cls \in SingletonClasses, args \in ArgTuples :
          /\ ~InInstances(Singleton_instances, cls)
          /\ HasOwnInit(cls)
          /\ LET obj == Len(heap) + 1
             IN  /\ heap' = Append(heap, [cls |-> cls, fields |-> << >>])
                 /\ stack' = Append(stack, [cls |-> cls, args |-> args, obj |-> obj])
                 /\ trace' = trace \o
                       << [ev |-> "Singleton.__call__", cls |-> cls, args |-> args],
                          [ev |-> "__new__", cls |-> cls, obj |-> obj],
                          [ev |-> "__init__", cls |-> cls, obj |-> obj] >>
    /\ UNCHANGED << pc, stdout, Singleton_instances, returned,
                    convVars, metaVars, lifeVars, abcVars >>

\* The __init__ of the innermost call raises: super().__call__ raises, and
\* so does Singleton.__call__, before anything is stored.
InitRaises ==
    /\ stack # << >>
    /\ trace' = Append(trace, [ev |-> "raise", cls |-> stack[Len(stack)].cls])
    /\ stack' = SubSeq(stack, 1, Len(stack) - 1)
    /\ UNCHANGED << pc, heap, stdout, Singleton_instances, returned,
                    convVars, metaVars, lifeVars, abcVars >>

\* The __init__ of the innermost call returns, having kept its arguments on
\* self: super().__call__ returns the object, Singleton.__call__ stores it
\* under cls and returns cls._instances[cls].
InitReturns ==
    /\ stack # << >>
    /\ LET top == stack[Len(stack)]
           stored == DictSet(Singleton_instances, top.cls, top.obj)
       IN  /\ heap' = [heap EXCEPT ![top.obj].fields = << [k |-> "args", v |-> top.args] >>]
           /\ Singleton_instances' = stored
           /\ trace' = Append(trace,
                 [ev |-> "return", cls |-> top.cls, obj |-> DictGet(stored, top.cls)])
           /\ returned' = Append(returned,
                 [cls |-> top.cls, obj |-> DictGet(stored, top.cls)])
    /\ stack' = SubSeq(stack, 1, Len(stack) - 1)
    /\ UNCHANGED << pc, stdout, convVars, metaVars, lifeVars, abcVars >>

SingNext ==
    \/ CallStored
    \/ CallPlainClass
    \/ CallEntersInit
    \/ InitRaises
    \/ InitReturns

SpecSingleton == SingInit /\ [][SingNext]_vars

\* ------------------------------------------------------------- claims: C5

\* A camelCase identifier: a lowercase first word, then capitalised words,
\* each one uppercase letter followed by one or more lowercase letters.
IsCamelCase(s) ==
    /\ Len(s) >= 1
    /\ IsLower(s[1])
    /\ \A i \in DOMAIN s :
          \/ IsLower(s[i])
          \/ IsUpper(s[i]) /\ i < Len(s) /\ IsLower(s[i + 1])

\* The words of a camelCase identifier in lowercase, one underscore before
\* each word but the first.
RECURSIVE SnakeFrom(_, _)
SnakeFrom(s, i) ==
    IF i > Len(s) THEN << >>
    ELSE (IF IsUpper(s[i]) THEN << "_", LowerChar(s[i]) >> ELSE << s[i] >>)
         \o SnakeFrom(s, i + 1)

add_to_vector == << "a", "d", "d", "_", "t", "o", "_", "v", "e", "c", "t", "o", "r" >>

subtract_from_vector ==
    << "s", "u", "b", "t", "r", "a", "c", "t", "_",
       "f", "r", "o", "m", "_", "v", "e", "c", "t", "o", "r" >>

calculate_triple_product ==
    << "c", "a", "l", "c", "u", "l", "a", "t", "e", "_",
       "t", "r", "i", "p", "l", "e", "_", "p", "r", "o", "d", "u", "c", "t" >>

\* C5: convert maps a camelCase identifier to its words in lowercase joined by
\* exactly one underscore between consecutive words, with no leading or
\* trailing underscore; addToVector, subtractFromVector and
\* calculateTripleProduct become add_to_vector, subtract_from_vector and
\* calculate_triple_product.
C5_ConvertCamelCase ==
    (ret # << >> /\ IsCamelCase(arg)) =>
        LET r == ret[1]
        IN  /\ r = SnakeFrom(arg, 1)
            /\ r[1] # "_"
            /\ r[Len(r)] # "_"
            /\ \A i \in 1 .. Len(r) - 1 : ~(r[i] = "_" /\ r[i + 1] = "_")
            /\ arg = addToVector => r = add_to_vector
            /\ arg = subtractFromVector => r = subtract_from_vector
            /\ arg = calculateTripleProduct => r = calculate_triple_product

\* C5 witness: a three-word identifier whose second boundary only the second
\* substitution finds has been converted.
C5_Witness ==
    /\ arg = << "a", "B", "b", "A", "a" >>
    /\ IsCamelCase(arg)
    /\ ret = << << "a", "_", "b", "b", "_", "a", "a" >> >>

\* ----------------------------------------------------- claims: C3, C4, C6

\* The name an attribute is to be stored under: convert(attr_name) unless
\* attr_name starts with '__'.
Target(attr_name) ==
    IF StartsWithDunder(attr_name) THEN attr_name ELSE convert(attr_name)

\* The last attribute of the body stored under key.
LastStoredAs(key) ==
    CHOOSE i \in DOMAIN body :
        /\ Target(body[i].k) = key
        /\ \A j \in DOMAIN body : Target(body[j].k) = key => j <= i

\* C3 as claimed: camel_to_snake_case returns a class with the given name and
\* bases in whose namespace every attribute not starting with '__' is stored
\* under convert(attr_name) (and not under its original name when the two
\* differ) and every attribute starting with '__' under its original name,
\* each with its original value.
C3_AsClaimed ==
    fnClass # << >> =>
        LET c == fnClass[1]
        IN  /\ c.name = clsname
            /\ c.bases = clsbases
            /\ \A i \in DOMAIN body :
                  LET attr_name == body[i].k
                  IN  /\ Target(attr_name) \in DictKeys(c.ns)
                      /\ DictGet(c.ns, Target(attr_name)) = body[i].v
                      /\ (Target(attr_name) # attr_name)
                            => attr_name \notin DictKeys(c.ns)

\* C3 (amended): camel_to_snake_case returns a class with the given name and
\* bases whose namespace has exactly the names convert(attr_name) for the
\* attributes not starting with '__' and attr_name for those starting with
\* '__'; a renamed attribute is not kept under its original name; and each
\* name holds the value of the last attribute of attrs stored under it, so
\* that an attribute keeps its original value unless a later one is stored
\* under the same name.
C3_FunctionMetaclass ==
    fnClass # << >> =>
        LET c == fnClass[1]
        IN  /\ c.name = clsname
            /\ c.bases = clsbases
            /\ DictKeys(c.ns) = { Target(body[i].k) : i \in DOMAIN body }
            /\ \A i, j \in DOMAIN c.ns : c.ns[i].k = c.ns[j].k => i = j
            /\ \A key \in DictKeys(c.ns) :
                  DictGet(c.ns, key) = body[LastStoredAs(key)].v
            /\ \A i \in DOMAIN body :
                  (Target(body[i].k) # body[i].k) => body[i].k \notin DictKeys(c.ns)
            /\ \A i \in DOMAIN body :
                  (\A j \in DOMAIN body : j > i => Target(body[j].k) # Target(body[i].k))
                      => DictGet(c.ns, Target(body[i].k)) = body[i].v

\* C3 witness: a body defining aB and then a_b has been built into a class
\* whose only attribute a_b holds the second value.
C3_Witness ==
    /\ clsname = MyVector
    /\ clsbases = << "object" >>
    /\ fnClass # << >>
    /\ fnClass[1].name = MyVector
    /\ fnClass[1].bases = << "object" >>
    /\ body = << [k |-> << "a", "B" >>, v |-> 1], [k |-> << "a", "_", "b" >>, v |-> 2] >>
    /\ fnClass # << >>
    /\ fnClass[1].ns = << [k |-> << "a", "_", "b" >>, v |-> 2] >>

\* C4 as claimed: CamelToSnake.__new__ passes each attribute whose name starts
\* with '__' to type.__new__ under its original name and each other attribute
\* under convert(attr_name).
C4_AsClaimed ==
    mcClass # << >> =>
        \A i \in DOMAIN body : Target(body[i].k) \in DictKeys(mcClass[1].ns)

\* C6 as claimed: for every class name and namespace the classes built by
\* camel_to_snake_case and by CamelToSnake have the same name and bases and
\* the same attribute names bound to the same values.
C6_AsClaimed ==
    (fnClass # << >> /\ mcClass # << >>) =>
        /\ fnClass[1].name = mcClass[1].name
        /\ fnClass[1].bases = mcClass[1].bases
        /\ DictItems(fnClass[1].ns) = DictItems(mcClass[1].ns)

\* --------------------------------------------------------- claims: C7, C8

\* The places of the trace at which event ev stands.
At(ev) == { i \in DOMAIN trace : trace[i].ev = ev }

\* The events of the class statement and of the statement after it, in the
\* order claimed.
DefinitionOrder ==
    << "MyMeta.__prepare__", "class body", "MyMeta.__new__", "MyMeta.__init__", "print" >>

\* C7: for class MyClass2(metaclass=MyMeta, extra=1) the hooks run exactly
\* once and in the order __prepare__, class body, MyMeta.__new__,
\* MyMeta.__init__, all before the statement after the class definition;
\* MyMeta.__call__ does not run at definition time; __prepare__, __new__ and
\* __init__ receive the same name, bases and keyword arguments, and __new__
\* and __init__ the same attrs.
C7_ClassCreationOrder ==
    /\ \A i \in DOMAIN trace :
          i <= Len(DefinitionOrder) => trace[i].ev = DefinitionOrder[i]
    /\ \A i \in DOMAIN trace :
          i > Len(DefinitionOrder) =>
              trace[i].ev \notin
                  { "MyMeta.__prepare__", "class body", "MyMeta.__new__", "MyMeta.__init__" }
    /\ pc \in { "cell10", "body", "meta_new", "meta_init", "after_class" }
          <=> Len(trace) < Len(DefinitionOrder)
    /\ \A i \in At("MyMeta.__call__") : i > Len(DefinitionOrder)
    /\ \A i \in At("MyMeta.__prepare__") :
          /\ trace[i].name = "MyClass2"
          /\ trace[i].bases = << >>
          /\ trace[i].kwargs = kw
    /\ \A i \in At("MyMeta.__new__") : \A j \in At("MyMeta.__prepare__") :
          /\ trace[i].name = trace[j].name
          /\ trace[i].bases = trace[j].bases
          /\ trace[i].kwargs = trace[j].kwargs
          /\ trace[i].attrs = KeyList(MyClass2Body)
    /\ \A i \in At("MyMeta.__init__") : \A j \in At("MyMeta.__new__") :
          /\ trace[i].name = trace[j].name
          /\ trace[i].bases = trace[j].bases
          /\ trace[i].kwargs = trace[j].kwargs
          /\ trace[i].attrs = trace[j].attrs

\* C7 witness: the class statement with extra=1 and the statement after it
\* have run, five events in all.
C7_Witness ==
    /\ pc = "idle"
    /\ kw = << [k |-> "extra", v |-> 1] >>
    /\ Len(trace) = Len(DefinitionOrder)
    /\ trace[4].ev = "MyMeta.__init__"
    /\ trace[4].kwargs = kw

\* C8: every instantiation of MyClass2 is bracketed by MyMeta.__call__: the
\* events are __call__ entered, MyClass2.__new__, MyClass2.__init__, __call__
\* returns, in this order and next to each other; MyClass2.__new__ and
\* MyClass2.__init__ run nowhere else; and the object __call__ returns is the
\* one __new__ created and __init__ initialised, its a and b those of the call.
C8_CallBrackets ==
    /\ \A i \in At("MyClass2.__new__") :
          /\ i > 1
          /\ trace[i - 1].ev = "MyMeta.__call__"
          /\ trace[i].a = ParamA(trace[i - 1].call)
          /\ trace[i].b = ParamB(trace[i - 1].call)
          /\ i < Len(trace) => trace[i + 1].ev = "MyClass2.__init__"
          /\ i = Len(trace) => pc = "obj_init"
    /\ \A i \in At("MyClass2.__init__") :
          /\ i > 2
          /\ trace[i - 1].ev = "MyClass2.__new__"
          /\ trace[i].self = trace[i - 1].obj
          /\ i < Len(trace) => trace[i + 1].ev = "MyMeta.__call__ return"
          /\ i = Len(trace) => pc = "call_return"
    /\ \A i \in At("MyMeta.__call__ return") :
          /\ i > 3
          /\ trace[i - 1].ev = "MyClass2.__init__"
          /\ trace[i - 3].ev = "MyMeta.__call__"
          /\ trace[i].self = trace[i - 2].obj
          /\ trace[i].self = trace[i - 1].self
          /\ heap[trace[i].self].cls = "MyClass2"
          /\ DictItems(heap[trace[i].self].fields) =
                { << "a", ParamA(trace[i - 3].call) >>,
                  << "b", ParamB(trace[i - 3].call) >> }
          /\ i = Len(trace) => a_var = << trace[i].self >>
    /\ \A i \in At("MyMeta.__call__") :
          i < Len(trace) => trace[i + 1].ev \in { "MyClass2.__new__", "TypeError" }
    /\ Cardinality(At("MyClass2.__new__")) = Len(heap)

\* C8 witness: MyClass2('hello', a=1) has returned the object it created, with
\* a = 1 and b left at its default 0.
C8_Witness ==
    /\ pc = "print_instance"
    /\ trace[Len(trace)].ev = "MyMeta.__call__ return"
    /\ trace[Len(trace) - 3].call = [s |-> << "hello" >>, a |-> << 1 >>, b |-> << >>]
    /\ a_var = << trace[Len(trace)].self >>
    /\ heap[a_var[1]].fields = << [k |-> "a", v |-> 1], [k |-> "b", v |-> 0] >>

\* ------------------------------------------------------------- claims: C2

\* The kind of the definition the method m resolves to for the class named c:
\* that of the nearest class, from c up its bases, whose body defines m.
RECURSIVE Resolves(_, _)
Resolves(c, m) ==
    IF c = "" THEN "absent"
    ELSE LET cls == DictGet(classes, c)
         IN  IF m \in DictKeys(cls.ns) THEN DictGet(cls.ns, m)
             ELSE Resolves(cls.base, m)

\* The abstract methods the class named c has not overridden.
LeftAbstract(c) == { m \in MethodNames : Resolves(c, m) = "abstract" }

\* The events of the trace that are attempts to instantiate the class c.
TypeErrorsOf(c) ==
    { i \in DOMAIN trace : trace[i].ev = "TypeError" /\ trace[i].cls = c }

InstancesOf(c) ==
    { i \in DOMAIN trace : trace[i].ev = "instance" /\ trace[i].cls = c }

\* C2: abstract methods are enforced at instantiation, not at definition:
\* defining Car succeeds; Car(...) raises TypeError before Car.__init__ runs,
\* the error is printed, its message names exactly change_gear and
\* start_engine, and car stays unbound.  In general a subclass of Vehicle is
\* instantiated if and only if every abstract method resolves, for it, to a
\* definition that is not abstract; the message of the TypeError names
\* exactly the methods left abstract.
C2_AbstractAtInstantiation ==
    /\ pc \in { "car_defined", "cell1_done" } =>
          /\ "Car" \in DictKeys(classes)
          /\ trace[2] = [ev |-> "class", name |-> "Car"]
          /\ \A i \in 1 .. 2 : trace[i].ev = "class"
    /\ pc = "cell1_done" =>
          /\ trace[3] = [ev |-> "TypeError", text |-> "Can't instantiate abstract class",
                         cls |-> "Car",
                         methods |-> << "change_gear", "start_engine" >>]
          /\ stdout[1] = trace[3]
          /\ InstancesOf("Car") = { }
          /\ \A i \in DOMAIN heap : heap[i].cls # "Car"
    /\ (pc = "cell1_done" /\ tries = 0) => car_var = << >> /\ heap = << >>
    /\ \A c \in DictKeys(classes) :
          /\ DictGet(classes, c).abstractmethods = LeftAbstract(c)
          /\ LeftAbstract(c) # { } => InstancesOf(c) = { }
          /\ LeftAbstract(c) = { } => TypeErrorsOf(c) = { }
          /\ \A i \in TypeErrorsOf(c) :
                /\ trace[i].methods = SortedMethods(LeftAbstract(c))
                /\ \E j \in DOMAIN stdout : stdout[j] = trace[i]
    /\ Len(stdout) = Cardinality({ i \in DOMAIN trace : trace[i].ev = "TypeError" })
    /\ Len(heap) = Cardinality({ i \in DOMAIN trace : trace[i].ev = "instance" })

\* C2 witness: cell 1 has printed its TypeError and left car unbound, and
\* afterwards a subclass of Car that overrides both methods was defined and
\* instantiated.
C2_Witness ==
    /\ pc = "cell1_done"
    /\ Len(stdout) = 1
    /\ stdout[1].cls = "Car"
    /\ \E c \in DictKeys(classes) :
          /\ DictGet(classes, c).base = "Car"
          /\ InstancesOf(c) # { }
          /\ car_var # << >>
          /\ heap[car_var[1]].cls = c

\* --------------------------------------------------------- claims: C1, C9

\* C1 as claimed: for any class whose metaclass is Singleton, after any
\* sequence of calls with any arguments, every call returns the identical
\* object: any two objects returned for the class are one and the same.
C1_AsClaimed ==
    \A i, j \in DOMAIN returned :
        returned[i].cls = returned[j].cls => returned[i].obj = returned[j].obj

\* C9 as claimed: an entry once stored in Singleton._instances is never
\* replaced or removed, and once the class has its entry no step creates a
\* further object of the class or changes the stored instance.
C9_AsClaimed ==
    [][\A cls \in SingletonClasses :
          InInstances(Singleton_instances, cls) =>
              /\ InInstances(Singleton_instances', cls)
              /\ DictGet(Singleton_instances', cls) = DictGet(Singleton_instances, cls)
              /\ heap'[DictGet(Singleton_instances, cls)]
                    = heap[DictGet(Singleton_instances, cls)]
              /\ \A i \in DOMAIN heap' : i \notin DOMAIN heap => heap'[i].cls # cls]_vars

====
